---- MODULE Spec2Model ----
(***************************************************************************)
(* Model of the cleaning scripts and the predictor of knutKnutRealEstate:  *)
(*   scripts/dataClean.py    read_json + clean_data(df) on a pandas frame  *)
(*   scripts/clean_houses.py clean_file, a line by line JSONL filter       *)
(*   kkd_dashboard.py        create_feature_vector, predict, the callback  *)
(*                                                                         *)
(* Strings are sequences of one-character strings, so that strip, lower,   *)
(* str() and to_numeric are computed and not assumed.  Numbers are the     *)
(* multiples of one half: a number is n + h/2 with n an integer (its       *)
(* floor) and h in {0, 1}.  pandas semantics are those of pandas 1.x/2.x   *)
(* (astype(str) turns NaN into the string "nan").                          *)
(***************************************************************************)
EXTENDS Integers, Sequences, FiniteSets, TLC

(***************************************************************************)
(* Values of a cell / of a JSON member.                                    *)
(***************************************************************************)
\* the key is not in the JSON object at all
Absent == [t |-> "absent", n |-> 0, h |-> 0, s |-> <<>>]
\* JSON null / Python None / numpy.nan: the missing marker
NaN == [t |-> "nan", n |-> 0, h |-> 0, s |-> <<>>]
Num(n, h) == [t |-> "num", n |-> n, h |-> h, s |-> <<>>]
Str(s) == [t |-> "str", n |-> 0, h |-> 0, s |-> s]

IsNum(v) == v.t = "num"
IsStr(v) == v.t = "str"
IsNaN(v) == v.t = "nan"

\* numeric comparisons of two numbers (floor, half)
NumGE(a, b) == a.n > b.n \/ (a.n = b.n /\ a.h >= b.h)
NumLE(a, b) == NumGE(b, a)
NumGT(a, b) == ~NumLE(a, b)

(***************************************************************************)
(* Characters and strings.                                                 *)
(***************************************************************************)
Digits == <<"0", "1", "2", "3", "4", "5", "6", "7", "8", "9">>
DigitChars == {Digits[i] : i \in 1..10}
DigitVal(c) == (CHOOSE i \in 1..10 : Digits[i] = c) - 1

\* str.lower on one character (the capitals that occur in the inputs)
LowerChar(c) ==
    CASE c = "N" -> "n"
      [] c = "O" -> "o"
      [] c = "Y" -> "y"
      [] c = "E" -> "e"
      [] c = "S" -> "s"
      [] OTHER -> c

Lower(s) == [i \in 1..Len(s) |-> LowerChar(s[i])]

RECURSIVE LStrip(_)
LStrip(s) == IF s # <<>> /\ s[1] = " " THEN LStrip(Tail(s)) ELSE s

RECURSIVE RStrip(_)
RStrip(s) ==
    IF s # <<>> /\ s[Len(s)] = " " THEN RStrip(SubSeq(s, 1, Len(s) - 1)) ELSE s

\* str.strip()
Strip(s) == RStrip(LStrip(s))

\* decimal digits of a natural number
RECURSIVE NatStr(_)
NatStr(k) == IF k < 10 THEN <<Digits[k + 1]>>
             ELSE NatStr(k \div 10) \o <<Digits[(k % 10) + 1]>>

\* str(x) of a number: a whole number is a Python int, a half a float
NumStr(v) ==
    LET neg  == v.n < 0
        mag  == IF neg THEN (IF v.h = 1 THEN -(v.n + 1) ELSE -v.n) ELSE v.n
        sign == IF neg THEN <<"-">> ELSE <<>>
        frac == IF v.h = 1 THEN <<".", "5">> ELSE <<>>
    IN  sign \o NatStr(mag) \o frac

\* value of a non-empty digit string
RECURSIVE NatVal(_)
NatVal(d) == IF Len(d) = 1 THEN DigitVal(d[1])
             ELSE 10 * NatVal(SubSeq(d, 1, Len(d) - 1)) + DigitVal(d[Len(d)])

IsDigits(d) == d # <<>> /\ \A i \in 1..Len(d) : d[i] \in DigitChars

\* position of the first "." of s, or 0
DotPos(s) == IF \E i \in 1..Len(s) : s[i] = "."
             THEN CHOOSE i \in 1..Len(s) : s[i] = "." /\ \A j \in 1..(i - 1) : s[j] # "."
             ELSE 0

\* pandas.to_numeric(errors="coerce") on one string: [-]digits[.0|.5], else NaN
ParseNum(s) ==
    LET neg  == s # <<>> /\ s[1] = "-"
        body == IF neg THEN Tail(s) ELSE s
        dot  == DotPos(body)
        ip   == IF dot = 0 THEN body ELSE SubSeq(body, 1, dot - 1)
        fp   == IF dot = 0 THEN <<"0">> ELSE SubSeq(body, dot + 1, Len(body))
        ok   == IsDigits(ip) /\ fp \in {<<"0">>, <<"5">>}
        half == IF fp = <<"5">> THEN 1 ELSE 0
        mag  == NatVal(ip)
    IN  IF ~ok THEN NaN
        ELSE IF ~neg THEN Num(mag, half)
        ELSE IF half = 1 THEN Num(-(mag + 1), 1)
        ELSE Num(-mag, 0)

\* float -> int of astype(int): truncation toward zero
Trunc(v) == IF v.n < 0 /\ v.h = 1 THEN Num(v.n + 1, 0) ELSE Num(v.n, 0)


(***************************************************************************)
(* scripts/dataClean.py                                                    *)
(***************************************************************************)
CURRENT_YEAR == 2026

NUMERIC_COLUMNS ==
    <<"price", "size", "bathrooms", "kitchens", "storage_rating", "condition_rating",
      "days_on_marked", "sun_factor", "lot_w", "external_storage_m2", "year", "remodeled">>

REQUIRED_COLUMNS == <<"price", "size", "year">>

INT_COLUMNS ==
    <<"bathrooms", "kitchens", "storage_rating", "condition_rating", "year",
      "remodeled", "lot_w", "external_storage_m2">>

Range(seq) == {seq[i] : i \in 1..Len(seq)}

\* every member name a record of the input may carry
Keys == Range(NUMERIC_COLUMNS) \cup {"sold", "sold_in_month", "sold_in_moth", "rooms", "Rooms"}

\* str.lower on a column name
LowerKey(k) == IF k = "Rooms" THEN "rooms" ELSE k

\* A frame is [cols, rows]: cols the column labels, rows the sequence of
\* [idx, vals], idx the index label of the row and vals its cells (Absent
\* under a label that is not a column).
Frame(cols, rows) == [cols |-> cols, rows |-> rows]

\* df[mask]: the rows of f at the positions where the boolean mask is True
RECURSIVE MaskRows(_, _, _)
MaskRows(rows, mask, i) ==
    IF i > Len(rows) THEN <<>>
    ELSE (IF mask[i] THEN <<rows[i]>> ELSE <<>>) \o MaskRows(rows, mask, i + 1)

Select(f, mask) == Frame(f.cols, MaskRows(f.rows, mask, 1))

\* df[col] = ...: the frame with the cells of its columns set to cells[i][k]
Assign(f, cells) ==
    Frame(f.cols,
          [i \in 1..Len(f.rows) |->
              [idx  |-> f.rows[i].idx,
               vals |-> [k \in Keys |-> IF k \in f.cols THEN cells[i][k] ELSE Absent]]])

\* pandas.read_json(lines=True): one row per record, one column per member
\* name that occurs, NaN where a record has no such member or has null
read_json(recs) ==
    LET cols == {k \in Keys : \E i \in 1..Len(recs) : recs[i][k] # Absent}
    IN  Frame(cols,
              [i \in 1..Len(recs) |->
                  [idx  |-> i,
                   vals |-> [k \in Keys |-> IF k \notin cols THEN Absent
                                            ELSE IF recs[i][k] = Absent THEN NaN
                                            ELSE recs[i][k]]]])

\* line 16; two labels that lower to the same name give a duplicated label,
\* on which line 24 raises (StripRaises below)
LowerColumns(f) ==
    LET src(k) == CHOOSE c \in f.cols : LowerKey(c) = k
        cols   == {LowerKey(c) : c \in f.cols}
    IN  Frame(cols,
              [i \in 1..Len(f.rows) |->
                  [idx  |-> f.rows[i].idx,
                   vals |-> [k \in Keys |-> IF k \in cols THEN f.rows[i].vals[src(k)]
                                            ELSE Absent]]])

\* lines 19-20
RenameTypo(f) ==
    IF "sold_in_moth" \in f.cols /\ "sold_in_month" \notin f.cols
    THEN Frame((f.cols \ {"sold_in_moth"}) \cup {"sold_in_month"},
               [i \in 1..Len(f.rows) |->
                   [idx  |-> f.rows[i].idx,
                    vals |-> [k \in Keys |->
                                 IF k = "sold_in_month" THEN f.rows[i].vals["sold_in_moth"]
                                 ELSE IF k = "sold_in_moth" THEN Absent
                                 ELSE f.rows[i].vals[k]]]])
    ELSE f

\* select_dtypes(include=["object"]): the columns that hold a string
ObjectColumns(f) == {c \in f.cols : \E i \in 1..Len(f.rows) : IsStr(f.rows[i].vals[c])}

\* astype(str) on one cell
AsStr(v) == IF IsStr(v) THEN v.s
            ELSE IF IsNum(v) THEN NumStr(v)
            ELSE <<"n", "a", "n">>

\* lines 23-24
StripStrings(f) ==
    LET obj == ObjectColumns(f)
    IN  Assign(f, [i \in 1..Len(f.rows) |-> [k \in Keys |->
            IF k \in obj THEN Str(Strip(AsStr(f.rows[i].vals[k]))) ELSE f.rows[i].vals[k]]])

Placeholders ==
    {<<>>, <<"u", "n", "k", "n", "o", "w", "n">>, <<"N", "o", "n", "e">>, <<"n", "a", "n">>}

\* line 27
ReplacePlaceholders(f) ==
    Assign(f, [i \in 1..Len(f.rows) |-> [k \in Keys |->
        IF IsStr(f.rows[i].vals[k]) /\ f.rows[i].vals[k].s \in Placeholders THEN NaN
        ELSE f.rows[i].vals[k]]])

\* lines 30-32
CoerceNumeric(f) ==
    Assign(f, [i \in 1..Len(f.rows) |-> [k \in Keys |->
        IF k \in Range(NUMERIC_COLUMNS) /\ IsStr(f.rows[i].vals[k])
        THEN ParseNum(f.rows[i].vals[k].s) ELSE f.rows[i].vals[k]]])

\* lines 16-32 with line 27 (replace) run before lines 23-24 (strip)
Normalize_ReplaceBeforeStrip(f) ==
    CoerceNumeric(StripStrings(ReplacePlaceholders(RenameTypo(LowerColumns(f)))))

\* lines 16-32: the normalisation and coercion part of clean_data
Normalize(f) ==
    CoerceNumeric(ReplacePlaceholders(StripStrings(RenameTypo(LowerColumns(f)))))

\* lines 35-37
DropMissingRequired(f) ==
    LET present_required == Range(REQUIRED_COLUMNS) \cap f.cols
    IN  IF present_required # {}
        THEN Select(f, [i \in 1..Len(f.rows) |->
                           \A c \in present_required : ~IsNaN(f.rows[i].vals[c])])
        ELSE f

\* line 40: drop_duplicates keeps the first of the rows with equal cells
RECURSIVE KeepFirst(_, _)
KeepFirst(rows, seen) ==
    IF rows = <<>> THEN <<>>
    ELSE IF Head(rows).vals \in seen THEN KeepFirst(Tail(rows), seen)
    ELSE <<Head(rows)>> \o KeepFirst(Tail(rows), seen \cup {Head(rows).vals})

DropDuplicates(f) == Frame(f.cols, KeepFirst(f.rows, {}))

SoldIs(r, word) == IsStr(r.vals["sold"]) /\ Lower(r.vals["sold"].s) = word

\* lines 43-45 with the comparison made without str.lower()
DropSoldNoWithMonth_CaseSensitive(f) ==
    IF "sold" \in f.cols /\ "sold_in_month" \in f.cols
    THEN Select(f, [i \in 1..Len(f.rows) |->
                       ~(f.rows[i].vals["sold"] = Str(<<"n", "o">>)
                         /\ Len(AsStr(f.rows[i].vals["sold_in_month"])) > 0)])
    ELSE f

\* lines 43-45
DropSoldNoWithMonth(f) ==
    IF "sold" \in f.cols /\ "sold_in_month" \in f.cols
    THEN Select(f, [i \in 1..Len(f.rows) |->
                       ~(SoldIs(f.rows[i], <<"n", "o">>)
                         /\ Len(AsStr(f.rows[i].vals["sold_in_month"])) > 0)])
    ELSE f

\* lines 48-50
DropSoldYesWithoutMonth(f) ==
    IF "sold" \in f.cols /\ "sold_in_month" \in f.cols
    THEN Select(f, [i \in 1..Len(f.rows) |->
                       ~(SoldIs(f.rows[i], <<"y", "e", "s">>)
                         /\ Len(AsStr(f.rows[i].vals["sold_in_month"])) = 0)])
    ELSE f

\* comparisons of a cell with a number: False on NaN
CellGE(v, b) == IsNum(v) /\ IsNum(b) /\ NumGE(v, b)
CellLE(v, b) == IsNum(v) /\ IsNum(b) /\ NumLE(v, b)
CellGT(v, b) == IsNum(v) /\ IsNum(b) /\ NumGT(v, b)

\* line 54
FilterPrice(f) ==
    IF "price" \in f.cols
    THEN Select(f, [i \in 1..Len(f.rows) |-> CellGE(f.rows[i].vals["price"], Num(0, 0))])
    ELSE f

\* line 56
FilterSize(f) ==
    IF "size" \in f.cols
    THEN Select(f, [i \in 1..Len(f.rows) |-> CellGT(f.rows[i].vals["size"], Num(0, 0))])
    ELSE f

\* line 58
YearInRange(r) ==
    CellGE(r.vals["year"], Num(1800, 0)) /\ CellLE(r.vals["year"], Num(CURRENT_YEAR, 0))

\* lines 57-58
FilterYear(f) ==
    IF "year" \in f.cols
    THEN Select(f, [i \in 1..Len(f.rows) |-> YearInRange(f.rows[i])])
    ELSE f

\* line 60
RemodeledInRange(r) ==
    CellGE(r.vals["remodeled"], r.vals["year"])
    /\ CellLE(r.vals["remodeled"], Num(CURRENT_YEAR, 0))

\* lines 59-60
FilterRemodeled(f) ==
    IF "remodeled" \in f.cols /\ "year" \in f.cols
    THEN Select(f, [i \in 1..Len(f.rows) |-> RemodeledInRange(f.rows[i])])
    ELSE f

\* lines 61-62
FilterSunFactor(f) ==
    IF "sun_factor" \in f.cols
    THEN Select(f, [i \in 1..Len(f.rows) |->
                       CellGE(f.rows[i].vals["sun_factor"], Num(0, 0))
                       /\ CellLE(f.rows[i].vals["sun_factor"], Num(1, 0))])
    ELSE f

\* lines 63-68: df = df[df[col] >= 0] for days_on_marked, bathrooms, kitchens
FilterNonNegative(f, col) ==
    IF col \in f.cols
    THEN Select(f, [i \in 1..Len(f.rows) |-> CellGE(f.rows[i].vals[col], Num(0, 0))])
    ELSE f

\* lines 53-68
FilterRanges(f) ==
    FilterNonNegative(FilterNonNegative(FilterNonNegative(
        FilterSunFactor(FilterRemodeled(FilterYear(FilterSize(FilterPrice(f))))),
        "days_on_marked"), "bathrooms"), "kitchens")

\* line 74 raises on a NaN in a column that is cast
CastRaises(f) ==
    \E c \in Range(INT_COLUMNS) \cap f.cols : \E i \in 1..Len(f.rows) : IsNaN(f.rows[i].vals[c])

\* lines 71-74
CastIntegers(f) ==
    Assign(f, [i \in 1..Len(f.rows) |-> [k \in Keys |->
        IF k \in Range(INT_COLUMNS) /\ IsNum(f.rows[i].vals[k]) THEN Trunc(f.rows[i].vals[k])
        ELSE f.rows[i].vals[k]]])

\* lines 35-68: what clean_data does to the normalised frame before the cast
FilterRows(f) ==
    FilterRanges(DropSoldYesWithoutMonth(DropSoldNoWithMonth(
        DropDuplicates(DropMissingRequired(f)))))

\* line 24 on a duplicated label: df[col] is a frame, which has no .str
StripRaises(df) ==
    \E c \in ObjectColumns(df) : \E d \in df.cols \ {c} : LowerKey(c) = LowerKey(d)

\* clean_data(df): the frame it returns (df) or the exception it raises (exc),
\* and its local df as it is after line 32 (normalized)
clean_data(df) ==
    IF StripRaises(df)
    THEN [exc |-> "AttributeError", df |-> Frame({}, <<>>), normalized |-> Frame({}, <<>>)]
    ELSE LET normal   == Normalize(df)
             filtered == FilterRows(normal)
         IN  IF CastRaises(filtered)
             THEN [exc |-> "IntCastingNaNError", df |-> Frame({}, <<>>), normalized |-> normal]
             ELSE [exc |-> "none", df |-> CastIntegers(filtered), normalized |-> normal]

(***************************************************************************)
(* scripts/clean_houses.py                                                 *)
(***************************************************************************)
\* A line of the input file: blank (empty after strip), malformed (json.loads
\* raises), scalar (JSON, but not an object) or json (an object, rec).
Line(kind, rec) == [kind |-> kind, rec |-> rec]

\* line 39
SoldIsNo(rec) == IsStr(rec["sold"]) /\ Lower(Strip(rec["sold"].s)) = <<"n", "o">>

\* line 44 testing the key only
YearMissing_KeyOnly(rec) == rec["year"] = Absent

\* line 44
YearMissing(rec) == rec["year"] = Absent \/ rec["year"] = NaN \/ rec["year"] = Str(<<>>)

\* line 49
RoomsEmpty(rec) == rec["rooms"] = Str(<<>>)

ZeroRooms == Str(<<"0", " ", "r", "o", "o", "m", "s">>)

\* lines 49-51 with the assignment to rec['rooms'] lost
FixRooms_NoAssignment(rec) == rec

\* lines 49-51
FixRooms(rec) == IF RoomsEmpty(rec) THEN [rec EXCEPT !["rooms"] = ZeroRooms] ELSE rec

(***************************************************************************)
(* Inputs.                                                                 *)
(***************************************************************************)
MaxBatch == 2

S_yes == <<"y", "e", "s">>
S_no == <<"n", "o">>
S_may == <<"m", "a", "y">>
S_unknown == <<"u", "n", "k", "n", "o", "w", "n">>
S_abc == <<"a", "b", "c">>

\* a record that violates no rule
Base ==
    [k \in Keys |->
        CASE k = "price" -> Num(100, 0)
          [] k = "size" -> Num(50, 0)
          [] k = "bathrooms" -> Num(2, 0)
          [] k = "kitchens" -> Num(1, 0)
          [] k = "storage_rating" -> Num(3, 0)
          [] k = "condition_rating" -> Num(4, 0)
          [] k = "days_on_marked" -> Num(10, 0)
          [] k = "sun_factor" -> Num(0, 1)
          [] k = "lot_w" -> Num(20, 0)
          [] k = "external_storage_m2" -> Num(5, 0)
          [] k = "year" -> Num(2000, 0)
          [] k = "remodeled" -> Num(CURRENT_YEAR, 0)
          [] k = "sold" -> Str(S_yes)
          [] k = "sold_in_month" -> Str(S_may)
          [] k = "rooms" -> Str(<<"3", " ", "r", "o", "o", "m", "s">>)
          [] OTHER -> Absent]

With(rec, k, v) == [rec EXCEPT ![k] = v]
With2(rec, k1, v1, k2, v2) == [rec EXCEPT ![k1] = v1, ![k2] = v2]

\* the records dataClean.py is run on: Base and its variants
SoldVariants ==
    { With(Base, "sold", Str(S_no)),
      With(Base, "sold", Str(<<" ", "N", "O", " ">>)),
      With(Base, "sold_in_month", Str(<<>>)),
      With(Base, "sold_in_month", Absent),
      With2(Base, "sold", Str(<<"Y", "E", "S">>), "sold_in_month", Str(<<" ">> \o S_unknown)),
      With2(Base, "sold", Str(S_no), "sold_in_month", Absent),
      With2(Base, "sold", Str(S_no), "sold_in_month", Str(<<>>)),
      With2(Base, "sold_in_month", Absent, "sold_in_moth", Str(S_may)) }

YearVariants ==
    { With(Base, "year", Num(1799, 0)),
      With(Base, "year", Num(1800, 0)),
      With(Base, "year", Num(CURRENT_YEAR, 0)),
      With(Base, "year", Num(CURRENT_YEAR + 1, 0)),
      With(Base, "year", Str(<<"2", "0", "0", "0">>)),
      With(Base, "year", Str(S_unknown)),
      With(Base, "year", Absent),
      With(Base, "year", Num(2000, 1)) }

RequiredVariants ==
    { With(Base, "price", Absent),
      With(Base, "price", Str(S_abc)),
      With(Base, "price", Str(<<" ", "1", "0", "0", " ">>)),
      With(Base, "price", Num(-1, 0)),
      With(Base, "size", Num(0, 0)) }

OptionalVariants ==
    { With(Base, "remodeled", NaN),
      With(Base, "remodeled", Num(1990, 0)),
      With(Base, "sun_factor", NaN),
      With(Base, "sun_factor", Num(1, 1)),
      With(Base, "days_on_marked", NaN),
      With(Base, "bathrooms", NaN),
      With(Base, "bathrooms", Num(2, 1)),
      With(Base, "bathrooms", Str(<<"-", "1">>)),
      With(Base, "kitchens", Absent),
      With(Base, "storage_rating", NaN),
      With(Base, "condition_rating", Str(S_abc)),
      With(Base, "external_storage_m2", Str(<<>>)) }

RoomsVariants ==
    { With(Base, "rooms", Str(<<>>)),
      With(Base, "rooms", Num(3, 0)),
      With2(Base, "rooms", Absent, "Rooms", Str(<<"3", " ", "r", "o", "o", "m", "s">>)) }

DataRecords ==
    {Base} \cup SoldVariants \cup YearVariants \cup RequiredVariants
           \cup OptionalVariants \cup RoomsVariants

\* the lines clean_houses.py is run on
FileRecords ==
    { Base,
      With(Base, "sold", Str(S_no)),
      With(Base, "sold", Str(<<" ", "N", "O", " ">>)),
      With(Base, "sold", NaN),
      With(Base, "sold", Absent),
      With(Base, "year", Absent),
      With(Base, "year", NaN),
      With(Base, "year", Str(<<>>)),
      With(Base, "year", Str(<<" ">>)),
      With(Base, "price", Absent),
      With(Base, "price", NaN),
      With(Base, "rooms", Str(<<>>)),
      With(Base, "rooms", Str(<<" ">>)),
      With(Base, "rooms", Absent),
      With2(Base, "rooms", Str(<<>>), "sold", Str(S_no)),
      With2(Base, "rooms", Str(<<>>), "year", Absent),
      With2(Base, "sold", Str(S_no), "year", Absent) }

FileLines ==
    {Line("blank", Base), Line("malformed", Base), Line("scalar", Base)}
    \cup {Line("json", r) : r \in FileRecords}

DataLines == {Line("json", r) : r \in DataRecords}

SeqsUpTo(S, n) == UNION {[1..m -> S] : m \in 0..n}

(***************************************************************************)
(* kkd_dashboard.py                                                        *)
(*                                                                         *)
(* A float is an exact fraction num/den in lowest terms (den > 0), or nan. *)
(* The model artifacts (weights, bias, scaler) are pickles that are not    *)
(* part of the source; they are loaded from a small set of bundles.        *)
(***************************************************************************)
RECURSIVE GCD(_, _)
GCD(a, b) == IF b = 0 THEN a ELSE GCD(b, a % b)

Abs(x) == IF x < 0 THEN -x ELSE x

FloatNaN == [t |-> "nan", num |-> 0, den |-> 1]
Float(num, den) ==
    LET g == GCD(Abs(num), den)
    IN  [t |-> "float", num |-> num \div g, den |-> den \div g]

\* float(x) of a cell: a number n + h/2, or None, which numpy makes nan
ToFloat(v) == IF IsNum(v) THEN Float(2 * v.n + v.h, 2) ELSE FloatNaN

FAdd(a, b) == IF a.t = "nan" \/ b.t = "nan" THEN FloatNaN
              ELSE Float(a.num * b.den + b.num * a.den, a.den * b.den)
FSub(a, b) == IF a.t = "nan" \/ b.t = "nan" THEN FloatNaN
              ELSE Float(a.num * b.den - b.num * a.den, a.den * b.den)
\* a / b with b > 0
FDiv(a, b) == IF a.t = "nan" \/ b.t = "nan" THEN FloatNaN
              ELSE Float(a.num * b.den, a.den * b.num)
FScale(k, a) == IF a.t = "nan" THEN FloatNaN ELSE Float(k * a.num, a.den)

\* the characters of the identifiers, in code point order
Alphabet ==
    <<" ", "0", "1", "2", "3", "4", "5", "6", "7", "8", "9", "M",
      "a", "b", "c", "d", "e", "f", "g", "h", "i", "j", "k", "l", "m",
      "n", "o", "p", "q", "r", "s", "t", "u", "v", "w", "x", "y", "z">>
Ord(c) == CHOOSE i \in 1..Len(Alphabet) : Alphabet[i] = c

\* a < b for two Python strings
RECURSIVE StrLess(_, _)
StrLess(a, b) ==
    IF b = <<>> THEN FALSE
    ELSE IF a = <<>> THEN TRUE
    ELSE IF a[1] # b[1] THEN Ord(a[1]) < Ord(b[1])
    ELSE StrLess(Tail(a), Tail(b))

\* insertion of x into a sorted list, after its equals
RECURSIVE Insert(_, _)
Insert(x, l) ==
    IF l = <<>> THEN <<x>>
    ELSE IF StrLess(x, l[1]) THEN <<x>> \o l
    ELSE <<l[1]>> \o Insert(x, Tail(l))

\* sorted(l)
RECURSIVE sorted(_)
sorted(l) == IF l = <<>> THEN <<>>
             ELSE Insert(l[Len(l)], sorted(SubSeq(l, 1, Len(l) - 1)))

MONTHS ==
    <<<<"j", "a", "n">>,
      <<"f", "e", "b">>,
      <<"m", "a", "r", "c", "h">>,
      <<"a", "p", "r", "i", "l">>,
      <<"m", "a", "y">>,
      <<"j", "u", "n", "e">>,
      <<"j", "u", "l", "y">>,
      <<"a", "u", "g", "u", "s", "t">>,
      <<"s", "e", "p", "t", "e", "m", "b", "e", "r">>,
      <<"o", "c", "t", "o", "b", "e", "r">>,
      <<"n", "o", "v", "e", "m", "b", "e", "r">>,
      <<"d", "e", "c", "e", "m", "b", "e", "r">>>>

AGENTS ==
    <<[agent_id |-> <<"6", "c", "5", "e", "c", "2", "f", "2", "6", "7", "9", "8", "4", "8", "4", "f", "b", "1", "0", "3", "1", "a", "7", "a", "3", "1", "c", "0", "8", "d", "7", "3">>,
       name |-> "Alice Vadasy"],
      [agent_id |-> <<"3", "a", "5", "4", "7", "d", "a", "0", "0", "7", "e", "0", "4", "c", "b", "d", "b", "8", "e", "d", "7", "e", "3", "6", "a", "5", "9", "2", "0", "a", "b", "5">>,
       name |-> "Rhonda Bowers"],
      [agent_id |-> <<"7", "9", "5", "d", "c", "3", "2", "1", "9", "c", "4", "5", "4", "8", "d", "e", "8", "a", "0", "6", "b", "a", "b", "e", "1", "7", "e", "5", "3", "1", "2", "c">>,
       name |-> "Pedro Sasser"],
      [agent_id |-> <<"8", "e", "6", "4", "7", "5", "f", "7", "9", "6", "c", "d", "4", "2", "5", "c", "a", "f", "c", "4", "9", "7", "e", "1", "a", "5", "c", "9", "4", "7", "4", "f">>,
       name |-> "Porfirio Wueste"],
      [agent_id |-> <<"3", "2", "b", "5", "5", "4", "b", "9", "e", "5", "5", "6", "4", "1", "5", "b", "9", "c", "1", "a", "5", "f", "4", "2", "9", "c", "b", "8", "6", "e", "a", "4">>,
       name |-> "Donna Mcclintock"],
      [agent_id |-> <<"1", "9", "a", "0", "b", "5", "6", "5", "0", "c", "4", "d", "4", "3", "6", "1", "9", "c", "b", "a", "e", "e", "a", "c", "9", "c", "c", "7", "a", "2", "0", "a">>,
       name |-> "Frank Schmidt"],
      [agent_id |-> <<"e", "f", "e", "f", "3", "0", "a", "b", "0", "7", "c", "d", "4", "0", "7", "a", "8", "8", "a", "a", "4", "8", "c", "4", "2", "4", "d", "5", "1", "7", "1", "a">>,
       name |-> "John Rios"],
      [agent_id |-> <<"b", "0", "7", "e", "6", "6", "7", "6", "5", "f", "3", "3", "4", "c", "a", "9", "9", "7", "0", "a", "a", "e", "e", "9", "9", "c", "f", "f", "c", "5", "a", "8">>,
       name |-> "Michael Hanners"],
      [agent_id |-> <<"f", "f", "f", "5", "8", "0", "8", "f", "d", "1", "5", "6", "4", "d", "4", "f", "a", "f", "d", "3", "2", "a", "e", "7", "4", "8", "4", "7", "9", "a", "2", "c">>,
       name |-> "John Jimenez"],
      [agent_id |-> <<"c", "4", "a", "0", "f", "4", "3", "4", "2", "9", "5", "d", "4", "e", "4", "e", "9", "7", "2", "b", "2", "5", "1", "2", "8", "2", "3", "d", "6", "c", "4", "a">>,
       name |-> "Frank Scheetz"],
      [agent_id |-> <<"d", "2", "b", "d", "0", "4", "c", "4", "a", "7", "9", "d", "4", "0", "9", "d", "8", "d", "6", "9", "2", "c", "a", "8", "e", "e", "a", "9", "6", "c", "7", "a">>,
       name |-> "Donald Campbell"],
      [agent_id |-> <<"f", "8", "0", "b", "7", "8", "e", "8", "4", "e", "e", "5", "4", "b", "d", "d", "9", "a", "f", "f", "5", "1", "9", "3", "4", "6", "b", "a", "2", "f", "1", "9">>,
       name |-> "Kirsten Webb"],
      [agent_id |-> <<"4", "e", "c", "a", "a", "4", "4", "7", "4", "3", "f", "1", "4", "5", "5", "2", "9", "c", "6", "8", "2", "7", "9", "9", "a", "4", "f", "f", "7", "1", "0", "0">>,
       name |-> "Michael Rowland"],
      [agent_id |-> <<"5", "f", "0", "b", "7", "9", "7", "5", "f", "5", "b", "c", "4", "2", "c", "d", "8", "a", "4", "6", "f", "8", "c", "2", "c", "c", "0", "a", "7", "b", "c", "8">>,
       name |-> "Charlotte Nodine"],
      [agent_id |-> <<"9", "6", "5", "6", "e", "d", "1", "4", "d", "6", "e", "a", "4", "7", "f", "d", "8", "4", "5", "0", "3", "a", "f", "7", "e", "1", "b", "e", "3", "e", "4", "e">>,
       name |-> "Ann Perez"],
      [agent_id |-> <<"4", "8", "5", "8", "9", "9", "5", "4", "4", "8", "9", "f", "4", "6", "2", "3", "9", "d", "e", "5", "7", "d", "1", "8", "4", "6", "b", "9", "c", "7", "9", "b">>,
       name |-> "Shirley Delrio"],
      [agent_id |-> <<"c", "b", "7", "d", "8", "9", "7", "6", "b", "d", "0", "a", "4", "c", "9", "8", "8", "2", "6", "b", "3", "3", "4", "4", "a", "c", "1", "8", "c", "d", "e", "a">>,
       name |-> "Lucy Moffatt"],
      [agent_id |-> <<"e", "b", "b", "2", "f", "f", "c", "4", "2", "3", "4", "b", "4", "0", "e", "b", "b", "7", "b", "f", "9", "b", "d", "d", "9", "c", "9", "2", "a", "d", "9", "8">>,
       name |-> "Gonzalo Ramos"],
      [agent_id |-> <<"6", "3", "f", "3", "d", "4", "c", "a", "d", "b", "f", "9", "4", "4", "d", "c", "a", "0", "e", "5", "8", "6", "7", "1", "1", "d", "3", "3", "a", "7", "0", "f">>,
       name |-> "Cheryl Dunlap"],
      [agent_id |-> <<"d", "e", "f", "b", "7", "d", "d", "2", "d", "b", "4", "8", "4", "5", "b", "a", "a", "9", "e", "9", "4", "f", "9", "a", "3", "8", "0", "0", "0", "9", "1", "3">>,
       name |-> "Mary Chavez"],
      [agent_id |-> <<"e", "f", "1", "4", "1", "b", "a", "6", "9", "b", "f", "9", "4", "7", "4", "1", "a", "a", "5", "7", "5", "6", "2", "3", "c", "7", "a", "b", "c", "6", "d", "8">>,
       name |-> "Pat Daniels"],
      [agent_id |-> <<"f", "c", "8", "b", "d", "0", "d", "6", "4", "3", "b", "9", "4", "d", "e", "5", "8", "c", "3", "6", "d", "2", "2", "1", "f", "2", "7", "b", "6", "f", "6", "6">>,
       name |-> "Johnnie Stanley"],
      [agent_id |-> <<"3", "6", "e", "5", "c", "7", "e", "1", "c", "1", "a", "5", "4", "7", "8", "2", "8", "7", "f", "c", "3", "c", "4", "a", "d", "9", "1", "b", "c", "7", "2", "c">>,
       name |-> "Misty Wallace"],
      [agent_id |-> <<"9", "0", "a", "c", "6", "0", "5", "5", "b", "f", "d", "0", "4", "5", "a", "d", "a", "f", "5", "0", "1", "f", "a", "d", "9", "6", "5", "c", "6", "e", "a", "3">>,
       name |-> "Gregory Dixon"]>>

AGENT_IDS == [i \in 1..Len(AGENTS) |-> AGENTS[i].agent_id]

\* {k: i for i, k in enumerate(l)}: a later equal key overwrites an earlier one
Enumerate(l) ==
    [k \in {l[i] : i \in 1..Len(l)} |->
        (CHOOSE i \in 1..Len(l) : l[i] = k /\ \A j \in (i + 1)..Len(l) : l[j] # k) - 1]

\* the maps built without sorted()
price_category_maps_Unsorted ==
    [sold_in_month |-> Enumerate(MONTHS), agent_id |-> Enumerate(AGENT_IDS)]

\* lines 73-76
price_category_maps ==
    [sold_in_month |-> Enumerate(sorted(MONTHS)),
     agent_id |-> Enumerate(sorted(AGENT_IDS))]

\* d.get(key, 0): a key that is not in the dict gets index 0
Lookup_WithDefault(d, key) ==
    IF IsStr(key) /\ key.s \in DOMAIN d
    THEN [exc |-> "none", idx |-> d[key.s]]
    ELSE [exc |-> "none", idx |-> 0]

\* d[key]: the index, or KeyError when key (a string, None, a number) is no key of d
Lookup(d, key) ==
    IF IsStr(key) /\ key.s \in DOMAIN d
    THEN [exc |-> "none", idx |-> d[key.s]]
    ELSE [exc |-> "KeyError", idx |-> 0]

\* oh = [0] * n; oh[idx] = 1, with idx counted from 0
OneHot(n, idx) == [i \in 1..n |-> IF i = idx + 1 THEN Float(1, 1) ELSE Float(0, 1)]

\* lines 83-84, elementwise on the three numerics
NumericScaled(m, size, external_storage, lot_w) ==
    LET numeric == <<ToFloat(size), ToFloat(external_storage), ToFloat(lot_w)>>
    IN  [i \in 1..3 |-> FDiv(FSub(numeric[i], Float(m.mean[i], 1)), Float(m.std[i], 1))]

\* create_feature_vector: the vector it returns, or the exception it raises
create_feature_vector(m, size, external_storage, lot_w, sold_month, agent_id) ==
    LET months    == price_category_maps.sold_in_month
        agents    == price_category_maps.agent_id
        month_idx == Lookup(months, sold_month)
        agent_idx == Lookup(agents, agent_id)
    IN  IF month_idx.exc # "none" THEN [exc |-> month_idx.exc, xs |-> <<>>]
        ELSE IF agent_idx.exc # "none" THEN [exc |-> agent_idx.exc, xs |-> <<>>]
        ELSE [exc |-> "none",
              xs |-> NumericScaled(m, size, external_storage, lot_w)
                         \o OneHot(Cardinality(DOMAIN months), month_idx.idx)
                         \o OneHot(Cardinality(DOMAIN agents), agent_idx.idx)]

\* np.dot(xs, theta)
RECURSIVE Dot(_, _)
Dot(xs, theta) ==
    IF xs = <<>> THEN Float(0, 1)
    ELSE FAdd(FScale(theta[1], xs[1]), Dot(Tail(xs), Tail(theta)))

\* predict: expm1 of the log price, kept as the log price it is taken of
predict(theta, xs, bias) == [expm1 |-> FAdd(Dot(xs, theta), Float(bias, 1))]

NoPrice == [expm1 |-> FloatNaN]

\* predict_price_model
predict_price_model(m, size, external_storage, lot_w, sold_month, agent_id) ==
    LET v == create_feature_vector(m, size, external_storage, lot_w, sold_month, agent_id)
    IN  IF v.exc # "none"
        THEN [exc |-> v.exc, xs |-> v.xs, priced |-> FALSE, price |-> NoPrice]
        ELSE [exc |-> "none", xs |-> v.xs, priced |-> TRUE,
              price |-> predict(m.price_model, v.xs, m.price_model_bias)]

\* the artifacts of models/: the weights, the bias and the scaler record
Bundles ==
    {[price_model |-> [i \in 1..39 |-> IF i = 1 THEN 1 ELSE 0], price_model_bias |-> 0,
      mean |-> <<0, 0, 0>>, std |-> <<1, 1, 1>>],
     [price_model |-> [i \in 1..39 |-> i - 20], price_model_bias |-> 1,
      mean |-> <<80, 5, 12>>, std |-> <<2, 4, 3>>]}

\* what the dropdowns and a caller can pass as sold_month: the 12 names, and
\* None, a capitalised label, a padded name, a full month name, a number
MonthInputs ==
    {Str(MONTHS[i]) : i \in 1..Len(MONTHS)}
        \cup {NaN, Str(<<"M", "a", "y">>), Str(<<" ", "m", "a", "y">>),
              Str(<<"j", "a", "n", "u", "a", "r", "y">>), Num(5, 0)}

\* the 24 identifiers, and None, a truncated identifier, an empty string
AgentInputs ==
    {Str(AGENT_IDS[i]) : i \in 1..Len(AGENT_IDS)}
        \cup {NaN, Str(SubSeq(AGENT_IDS[1], 1, 8)), Str(<<>>)}

\* the number inputs: a number, or None when the field is empty
SizeInputs == {Num(80, 0), Num(5, 0), NaN}
StorageInputs == {Num(5, 0)}
LotInputs == {Num(12, 0), Num(12, 1)}

(***************************************************************************)
(* State.                                                                  *)
(***************************************************************************)
VARIABLES
    script,               \* which script runs: "dataClean" or "clean_houses"
    lines,                \* the input file
    pc,                   \* where the script is
    normalized,           \* dataClean: df after line 32
    cleaned,              \* dataClean: what clean_data returned or raised
    renorm,               \* lines 16-32 applied to normalized once more
    pos,                  \* clean_file: lines consumed by the for loop
    total,
    removed_sold_no,
    removed_missing_year,
    rooms_fixed,
    outf,                 \* clean_file: records written, with their line number
    stats,                \* clean_file: the dict it returns
    models,               \* kkd_dashboard: the artifacts loaded at import
    request,              \* kkd_dashboard: the arguments of the callback
    reply                 \* kkd_dashboard: what the callback returned or raised

vars == <<script, lines, pc, normalized, cleaned, renorm, pos, total,
          removed_sold_no, removed_missing_year, rooms_fixed, outf, stats,
          models, request, reply>>

dashVars == <<models, request, reply>>
dataVars == <<normalized, cleaned, renorm>>
fileVars == <<pos, total, removed_sold_no, removed_missing_year, rooms_fixed, outf, stats>>

NoModels == [price_model |-> <<>>, price_model_bias |-> 0, mean |-> <<>>, std |-> <<>>]
NoRequest == [n |-> 0, size |-> NaN, ext |-> NaN, lot |-> NaN, month |-> NaN, agent_id |-> NaN]
NoReply == [exc |-> "pending", xs |-> <<>>, priced |-> FALSE, price |-> NoPrice]

EmptyFrame == Frame({}, <<>>)
NoResult == [exc |-> "pending", df |-> EmptyFrame]
NoStats == [returned |-> FALSE, total_seen |-> 0, removed_sold_no |-> 0,
            removed_missing_year |-> 0, rooms_fixed |-> 0, kept |-> 0]

Init ==
    /\ script \in {"dataClean", "clean_houses", "kkd_dashboard"}
    /\ lines \in IF script = "dataClean" THEN SeqsUpTo(DataLines, MaxBatch)
                 ELSE IF script = "clean_houses" THEN SeqsUpTo(FileLines, MaxBatch)
                 ELSE {<<>>}
    /\ pc = "start"
    /\ normalized = EmptyFrame
    /\ cleaned = NoResult
    /\ renorm = EmptyFrame
    /\ pos = 0
    /\ total = 0
    /\ removed_sold_no = 0
    /\ removed_missing_year = 0
    /\ rooms_fixed = 0
    /\ outf = <<>>
    /\ stats = NoStats
    /\ models = NoModels
    /\ request = NoRequest
    /\ reply = NoReply

Records == [i \in 1..Len(lines) |-> lines[i].rec]

\* dataClean.py lines 84-85: df = read_json(DATA_PATH); cleaned_df = clean_data(df)
Main ==
    /\ script = "dataClean"
    /\ pc = "start"
    /\ LET res == clean_data(read_json(Records))
       IN  /\ cleaned' = [exc |-> res.exc, df |-> res.df]
           /\ normalized' = res.normalized
           /\ pc' = IF res.exc = "none" THEN "cleaned" ELSE "raised"
    /\ UNCHANGED <<script, lines, renorm>>
    /\ UNCHANGED fileVars
    /\ UNCHANGED dashVars

\* lines 16-32 of clean_data on a frame that already went through them
Renormalize ==
    /\ script = "dataClean"
    /\ pc \in {"cleaned", "raised"}
    /\ cleaned.exc # "AttributeError"
    /\ renorm' = Normalize(normalized)
    /\ pc' = "renormalized"
    /\ UNCHANGED <<script, lines, normalized, cleaned>>
    /\ UNCHANGED fileVars
    /\ UNCHANGED dashVars

\* clean_houses.py lines 26-53: one iteration of the for loop
clean_file_line ==
    /\ script = "clean_houses"
    /\ pc \in {"start", "loop"}
    /\ pos < Len(lines)
    /\ pos' = pos + 1
    /\ LET raw == lines[pos + 1]
           rec == raw.rec
       IN  IF raw.kind = "blank"
           THEN /\ pc' = "loop"
                /\ UNCHANGED <<total, removed_sold_no, removed_missing_year, rooms_fixed, outf>>
           ELSE /\ total' = total + 1
                /\ IF raw.kind = "malformed"
                   THEN /\ pc' = "loop"
                        /\ UNCHANGED <<removed_sold_no, removed_missing_year, rooms_fixed, outf>>
                   ELSE IF raw.kind = "scalar"
                   THEN /\ pc' = "raised"
                        /\ UNCHANGED <<removed_sold_no, removed_missing_year, rooms_fixed, outf>>
                   ELSE IF SoldIsNo(rec)
                   THEN /\ pc' = "loop"
                        /\ removed_sold_no' = removed_sold_no + 1
                        /\ UNCHANGED <<removed_missing_year, rooms_fixed, outf>>
                   ELSE IF YearMissing(rec)
                   THEN /\ pc' = "loop"
                        /\ removed_missing_year' = removed_missing_year + 1
                        /\ UNCHANGED <<removed_sold_no, rooms_fixed, outf>>
                   ELSE /\ pc' = "loop"
                        /\ rooms_fixed' = IF RoomsEmpty(rec) THEN rooms_fixed + 1
                                          ELSE rooms_fixed
                        /\ outf' = Append(outf, [src |-> pos + 1, rec |-> FixRooms(rec)])
                        /\ UNCHANGED <<removed_sold_no, removed_missing_year>>
    /\ UNCHANGED <<script, lines, stats>>
    /\ UNCHANGED dataVars
    /\ UNCHANGED dashVars

\* clean_houses.py lines 55-62
clean_file_return ==
    /\ script = "clean_houses"
    /\ pc \in {"start", "loop"}
    /\ pos = Len(lines)
    /\ stats' = [returned |-> TRUE,
                 total_seen |-> total,
                 removed_sold_no |-> removed_sold_no,
                 removed_missing_year |-> removed_missing_year,
                 rooms_fixed |-> rooms_fixed,
                 kept |-> total - removed_sold_no - removed_missing_year]
    /\ pc' = "returned"
    /\ UNCHANGED <<script, lines, pos, total, removed_sold_no, removed_missing_year,
                   rooms_fixed, outf>>
    /\ UNCHANGED dataVars
    /\ UNCHANGED dashVars

\* kkd_dashboard.py lines 18-31: the pickles are loaded once, at import
load_models ==
    /\ script = "kkd_dashboard"
    /\ pc = "start"
    /\ models' \in Bundles
    /\ pc' = "serving"
    /\ UNCHANGED <<script, lines, request, reply>>
    /\ UNCHANGED dataVars
    /\ UNCHANGED fileVars

\* kkd_dashboard.py lines 168-172: the callback of the predict button
ui_predict ==
    /\ script = "kkd_dashboard"
    /\ pc = "serving"
    /\ \E n \in 0..1, size \in SizeInputs, ext \in StorageInputs, lot \in LotInputs,
          month \in MonthInputs, agent_id \in AgentInputs :
          /\ request' = [n |-> n, size |-> size, ext |-> ext, lot |-> lot,
                         month |-> month, agent_id |-> agent_id]
          /\ reply' = IF n = 0
                      THEN [exc |-> "none", xs |-> <<>>, priced |-> FALSE, price |-> NoPrice]
                      ELSE predict_price_model(models, size, ext, lot, month, agent_id)
          /\ pc' = IF reply'.exc = "none" THEN "replied" ELSE "raised"
    /\ UNCHANGED <<script, lines, models>>
    /\ UNCHANGED dataVars
    /\ UNCHANGED fileVars

Next ==
    \/ Main
    \/ Renormalize
    \/ clean_file_line
    \/ clean_file_return
    \/ load_models
    \/ ui_predict

Spec == Init /\ [][Next]_vars

(***************************************************************************)
(* Vocabulary of the properties: the raw record of a line, its row after   *)
(* normalisation and coercion, and the rules of the validator as the       *)
(* specification words them.                                               *)
(***************************************************************************)
JsonLines == {i \in 1..Len(lines) : lines[i].kind = "json"}
Raw(i) == lines[i].rec

Missing(v) == v = NaN \/ v = Absent

RawSold(i, word) == IsStr(Raw(i)["sold"]) /\ Lower(Strip(Raw(i)["sold"].s)) = word
RawMonthNonEmpty(i) == IsStr(Raw(i)["sold_in_month"]) /\ Raw(i)["sold_in_month"].s # <<>>
RawMonthMissing(i) ==
    \/ Missing(Raw(i)["sold_in_month"])
    \/ IsStr(Raw(i)["sold_in_month"]) /\ Strip(Raw(i)["sold_in_month"].s) \in Placeholders
RawMonthAbsentOrEmpty(i) == Raw(i)["sold_in_month"] \in {Absent, NaN, Str(<<>>)}

\* clean_data returned a frame that holds the row of line i
EmittedByCleanData(i) ==
    cleaned.exc = "none" /\ \E j \in 1..Len(cleaned.df.rows) : cleaned.df.rows[j].idx = i
\* the row of line i in the frame clean_data returned
OutRow(i) == cleaned.df.rows[CHOOSE j \in 1..Len(cleaned.df.rows) : cleaned.df.rows[j].idx = i]
\* clean_file wrote the record of line i
EmittedByCleanFile(i) == \E j \in 1..Len(outf) : outf[j].src = i
Written(i) == outf[CHOOSE j \in 1..Len(outf) : outf[j].src = i].rec

\* the cell of line i in column c after lines 16-32
Cell(i, c) == normalized.rows[i].vals[c]

NotDuplicate(i) == \A j \in 1..(i - 1) : normalized.rows[j].vals # normalized.rows[i].vals

RequiredPresent(i) == \A c \in Range(REQUIRED_COLUMNS) : IsNum(Cell(i, c))
PriceSizeValid(i) == NumGE(Cell(i, "price"), Num(0, 0)) /\ NumGT(Cell(i, "size"), Num(0, 0))
YearValid(i) ==
    NumGE(Cell(i, "year"), Num(1800, 0)) /\ NumLE(Cell(i, "year"), Num(CURRENT_YEAR, 0))
RemodeledValid(i) ==
    IsNum(Cell(i, "remodeled")) =>
        NumGE(Cell(i, "remodeled"), Cell(i, "year"))
        /\ NumLE(Cell(i, "remodeled"), Num(CURRENT_YEAR, 0))
SunFactorValid(i) ==
    IsNum(Cell(i, "sun_factor")) =>
        NumGE(Cell(i, "sun_factor"), Num(0, 0)) /\ NumLE(Cell(i, "sun_factor"), Num(1, 0))
CountsValid(i) ==
    \A c \in {"days_on_marked", "bathrooms", "kitchens"} :
        IsNum(Cell(i, c)) => NumGE(Cell(i, c), Num(0, 0))
CellSold(i, word) == IsStr(Cell(i, "sold")) /\ Lower(Cell(i, "sold").s) = word
SoldConsistent(i) ==
    /\ ~(CellSold(i, S_no) /\ ~Missing(Cell(i, "sold_in_month")))
    /\ ~(CellSold(i, S_yes) /\ Missing(Cell(i, "sold_in_month")))

\* rules 1, 3, 4, 5 (price, size), 6, 7, 8 of the validator: all but the year range
ValidExceptYear(i) ==
    /\ RequiredPresent(i)
    /\ PriceSizeValid(i)
    /\ RemodeledValid(i)
    /\ SunFactorValid(i)
    /\ CountsValid(i)
    /\ SoldConsistent(i)

ValidRecord(i) == ValidExceptYear(i) /\ YearValid(i)

Returned == script = "dataClean" /\ cleaned.exc = "none"

(***************************************************************************)
(* C1: a record whose sold is "no" (any case) and whose sold_in_month is   *)
(* non-empty is never emitted, neither by clean_data nor by clean_file.    *)
(***************************************************************************)
C1_SoldNoWithMonthDropped ==
    \A i \in JsonLines :
        RawSold(i, S_no) /\ RawMonthNonEmpty(i) =>
            ~EmittedByCleanData(i) /\ ~EmittedByCleanFile(i)

\* clean_data returned a non-empty frame from a batch holding such a record
C1_Witness ==
    /\ Returned
    /\ Len(cleaned.df.rows) > 0
    /\ \E i \in JsonLines : RawSold(i, S_no) /\ RawMonthNonEmpty(i)

(***************************************************************************)
(* C2: a record whose sold is "yes" and whose sold_in_month is empty or    *)
(* missing is not in the frame clean_data returns.                         *)
(***************************************************************************)
C2_SoldYesWithoutMonthDropped ==
    Returned =>
        \A i \in JsonLines :
            RawSold(i, S_yes) /\ RawMonthMissing(i) => ~EmittedByCleanData(i)

(***************************************************************************)
(* C3: a record whose sold is "no" and whose sold_in_month is absent or    *)
(* empty, which violates no other rule and is no duplicate, is in the      *)
(* frame clean_data returns.                                               *)
(***************************************************************************)
C3_SoldNoWithoutMonthKept ==
    Returned =>
        \A i \in JsonLines :
            RawSold(i, S_no) /\ RawMonthAbsentOrEmpty(i) /\ NotDuplicate(i) /\ ValidRecord(i)
                => EmittedByCleanData(i)

(***************************************************************************)
(* C4: a record that is no duplicate and violates no other rule is in the  *)
(* frame clean_data returns exactly if 1800 <= year <= current year.       *)
(***************************************************************************)
C4_YearDecidesSurvival ==
    Returned =>
        \A i \in JsonLines :
            NotDuplicate(i) /\ ValidExceptYear(i) => (EmittedByCleanData(i) <=> YearValid(i))

\* On the rows clean_data keeps the year range is exact: a kept row of a
\* frame with a year column has 1800 <= year <= current year, and a record that differs from Base in its
\* year alone is kept exactly if its year is in that range.
YearBoundsOnKeptRows ==
    Returned =>
        \A i \in JsonLines :
            /\ EmittedByCleanData(i) /\ "year" \in cleaned.df.cols => YearValid(i)
            /\ (NotDuplicate(i) /\ IsNum(Raw(i)["year"]) /\ With(Raw(i), "year", Base["year"]) = Base)
                  => (EmittedByCleanData(i) <=> YearValid(i))

(***************************************************************************)
(* C5: a record in which remodeled, sun_factor, days_on_marked, bathrooms  *)
(* or kitchens is missing, and which violates no rule, is kept.            *)
(***************************************************************************)
OptionalRanged == {"remodeled", "sun_factor", "days_on_marked", "bathrooms", "kitchens"}

C5_MissingOptionalKept ==
    Returned =>
        \A i \in JsonLines :
            /\ \E c \in OptionalRanged : Missing(Cell(i, c))
            /\ NotDuplicate(i)
            /\ ValidRecord(i)
            => EmittedByCleanData(i)

(***************************************************************************)
(* C6: the integer cast never raises, casts the cells that are present and *)
(* leaves a missing cell of a kept record missing.                         *)
(***************************************************************************)
C6_CastNeverFails ==
    /\ cleaned.exc # "IntCastingNaNError"
    /\ Returned =>
          \A i \in JsonLines : \A c \in Range(INT_COLUMNS) \cap cleaned.df.cols :
              EmittedByCleanData(i) =>
                  /\ IsNaN(Cell(i, c)) => IsNaN(OutRow(i).vals[c])
                  /\ IsNum(Cell(i, c)) => OutRow(i).vals[c] = Trunc(Cell(i, c))

(***************************************************************************)
(* C7: a record that is missing price is dropped and the counter of        *)
(* records removed for a missing required field goes up by exactly 1.      *)
(* clean_file is the validator that reports counters, and                  *)
(* removed_missing_year is its counter of missing required fields.         *)
(***************************************************************************)
\* the for loop of clean_file takes line i in this step
Takes(i) == script = "clean_houses" /\ pos = i - 1 /\ pos' = i /\ lines[i].kind = "json"

C7_MissingPriceCounted ==
    [][\A i \in 1..Len(lines) :
          Takes(i) /\ Missing(Raw(i)["price"]) =>
              /\ removed_missing_year' = removed_missing_year + 1
              /\ outf' = outf]_vars

\* C7 as amended: clean_file counts and drops a record for a missing year
\* only (key absent, null or ""), and only if its sold is not "no"; every
\* other line leaves the counter alone, and a record missing price alone is
\* written.  clean_data, which reports no counter, never emits a row whose
\* price is missing after coercion when the frame has a price column.
RawYearMissing(i) == Raw(i)["year"] \in {Absent, NaN, Str(<<>>)}

C7_MissingYearCounted ==
    [][/\ \A i \in 1..Len(lines) :
             Takes(i) =>
                 IF ~RawSold(i, S_no) /\ RawYearMissing(i)
                 THEN removed_missing_year' = removed_missing_year + 1 /\ outf' = outf
                 ELSE /\ removed_missing_year' = removed_missing_year
                      /\ (~RawSold(i, S_no) => Len(outf') = Len(outf) + 1)
       /\ script = "dataClean" /\ pc = "start" /\ cleaned'.exc = "none" =>
             \A j \in 1..Len(cleaned'.df.rows) :
                 "price" \in normalized'.cols =>
                     ~IsNaN(normalized'.rows[cleaned'.df.rows[j].idx].vals["price"])]_vars

\* clean_file dropped and counted a record without year, wrote one without
\* price and returned
C7_Witness ==
    /\ stats.returned
    /\ stats.removed_missing_year = 1
    /\ \E i \in JsonLines : RawYearMissing(i) /\ ~EmittedByCleanFile(i)
    /\ \E i \in JsonLines : Missing(Raw(i)["price"]) /\ EmittedByCleanFile(i)

(***************************************************************************)
(* C8: a record whose rooms is the empty string and which passes the drop  *)
(* rules comes out with rooms = "0 rooms".                                 *)
(***************************************************************************)
RawRoomsEmpty(i) == Raw(i)["rooms"] = Str(<<>>)

C8_EmptyRoomsRepaired ==
    \A i \in JsonLines :
        RawRoomsEmpty(i) =>
            /\ EmittedByCleanData(i) => OutRow(i).vals["rooms"] = ZeroRooms
            /\ EmittedByCleanFile(i) => Written(i)["rooms"] = ZeroRooms

\* C8 as amended: the repair is clean_file's.  A record with rooms == ""
\* that clean_file has taken, whose sold is not "no" and whose year is not
\* missing, is written, with rooms = "0 rooms" and nothing else changed.
\* clean_data does not repair: the row it keeps has rooms missing.
C8_EmptyRoomsRepairedByCleanFile ==
    \A i \in JsonLines :
        RawRoomsEmpty(i) =>
            /\ EmittedByCleanData(i) => IsNaN(OutRow(i).vals["rooms"])
            /\ (script = "clean_houses" /\ i <= pos /\ pc # "raised"
                /\ ~RawSold(i, S_no) /\ ~RawYearMissing(i))
                  => EmittedByCleanFile(i)
            /\ EmittedByCleanFile(i) =>
                  Written(i) = [Raw(i) EXCEPT !["rooms"] = ZeroRooms]

C8_Witness ==
    /\ stats.returned
    /\ stats.rooms_fixed = 1
    /\ \E i \in JsonLines : RawRoomsEmpty(i) /\ EmittedByCleanFile(i)

(***************************************************************************)
(* C9: no two rows of the frame clean_data returns are equal, and two      *)
(* records that are equal after normalisation and coercion are duplicates: *)
(* only the first is kept.                                                 *)
(***************************************************************************)
C9_NoEqualKeptRecords ==
    Returned =>
        /\ \A a, b \in 1..Len(cleaned.df.rows) :
               a # b => cleaned.df.rows[a].vals # cleaned.df.rows[b].vals
        /\ \A i \in JsonLines : ~NotDuplicate(i) => ~EmittedByCleanData(i)

(***************************************************************************)
(* C10: lines 16-32 of clean_data (normalisation and numeric coercion)     *)
(* applied to a frame that went through them give the same frame.          *)
(***************************************************************************)
C10_NormalizeIdempotent == pc = "renormalized" => renorm = normalized

\* the first pass changed the frame (so it is no identity), the second ran
C10_Witness ==
    /\ pc = "renormalized"
    /\ normalized # read_json(Records)
    /\ \E i \in JsonLines : \E c \in Keys : IsStr(Raw(i)[c]) /\ IsNum(Cell(i, c))
    /\ \E i \in JsonLines : \E c \in Keys : IsStr(Raw(i)[c]) /\ IsNaN(Cell(i, c))

(***************************************************************************)
(* Vocabulary of the predictor's properties.                               *)
(***************************************************************************)
\* the callback went past line 170 and called predict_price_model
Called == script = "kkd_dashboard" /\ pc \in {"replied", "raised"} /\ request.n > 0

RecognizedMonth == \E i \in 1..Len(MONTHS) : request.month = Str(MONTHS[i])
RecognizedAgent == \E i \in 1..Len(AGENTS) : request.agent_id = Str(AGENTS[i].agent_id)

\* the twelve month names in alphabetical order
AlphabeticalMonths ==
    <<<<"a", "p", "r", "i", "l">>,
      <<"a", "u", "g", "u", "s", "t">>,
      <<"d", "e", "c", "e", "m", "b", "e", "r">>,
      <<"f", "e", "b">>,
      <<"j", "a", "n">>,
      <<"j", "u", "l", "y">>,
      <<"j", "u", "n", "e">>,
      <<"m", "a", "r", "c", "h">>,
      <<"m", "a", "y">>,
      <<"n", "o", "v", "e", "m", "b", "e", "r">>,
      <<"o", "c", "t", "o", "b", "e", "r">>,
      <<"s", "e", "p", "t", "e", "m", "b", "e", "r">>>>

\* the number of fixed agent identifiers that come before a
AgentRank(a) == Cardinality({j \in 1..Len(AGENTS) : StrLess(AGENTS[j].agent_id, a)})

MonthBlock == SubSeq(reply.xs, 4, 15)
AgentBlock == SubSeq(reply.xs, 16, 39)

One == [t |-> "float", num |-> 1, den |-> 1]
Zero == [t |-> "float", num |-> 0, den |-> 1]

\* the block holds one 1 and zeros elsewhere
IsOneHot(block) ==
    /\ \A i \in 1..Len(block) : block[i] \in {Zero, One}
    /\ Cardinality({i \in 1..Len(block) : block[i] = One}) = 1

\* decoding: the index, from 0, of the 1
Decode(block) == (CHOOSE i \in 1..Len(block) : block[i] = One) - 1

\* the i-th component is the i-th numeric input, standardised
NumericSlot(i, v) ==
    FAdd(FScale(models.std[i], reply.xs[i]), Float(models.mean[i], 1)) = ToFloat(v)

(***************************************************************************)
(* C11: a call whose sold_month is not one of the 12 month names or whose  *)
(* agent_id is not one of the 24 agent identifiers fails with KeyError     *)
(* (category not found) and yields no feature vector and no price; no      *)
(* default index is substituted.                                           *)
(***************************************************************************)
C11_UnknownCategoryRaises ==
    (Called /\ (~RecognizedMonth \/ ~RecognizedAgent))
        => /\ reply.exc = "KeyError"
           /\ reply.xs = <<>>
           /\ ~reply.priced
           /\ pc = "raised"

C11_Witness ==
    /\ Called
    /\ RecognizedMonth
    /\ request.agent_id = Str(SubSeq(AGENT_IDS[1], 1, 8))
    /\ reply.exc = "KeyError"

(***************************************************************************)
(* C12: for a recognized month and a recognized agent the vector has 39    *)
(* components, the 3 standardised numerics, then 12 month slots, then 24   *)
(* agent slots; each block holds exactly one 1, the month's at the         *)
(* alphabetical index of the month and the agent's at the lexicographic    *)
(* index of the identifier, so decoding a block gives back the category.   *)
(***************************************************************************)
C12_OneHotBlocks ==
    (Called /\ RecognizedMonth /\ RecognizedAgent)
        => /\ reply.exc = "none"
           /\ Len(reply.xs) = 39
           /\ NumericSlot(1, request.size)
           /\ NumericSlot(2, request.ext)
           /\ NumericSlot(3, request.lot)
           /\ IsOneHot(MonthBlock)
           /\ IsOneHot(AgentBlock)
           /\ AlphabeticalMonths[Decode(MonthBlock) + 1] = request.month.s
           /\ Decode(AgentBlock) = AgentRank(request.agent_id.s)
           /\ Decode(MonthBlock) = price_category_maps.sold_in_month[request.month.s]
           /\ Decode(AgentBlock) = price_category_maps.agent_id[request.agent_id.s]

C12_Witness ==
    /\ Called
    /\ request.month = Str(S_may)
    /\ request.agent_id = Str(AGENT_IDS[1])
    /\ reply.exc = "none"
    /\ reply.priced
    /\ reply.xs[4 + 8] = One
    /\ Decode(AgentBlock) = 8

(***************************************************************************)
(* C13: the counters clean_file returns account for every line: kept is    *)
(* the number of records written, and total_seen = kept + removed_sold_no  *)
(* + removed_missing_year + the number of malformed lines skipped.         *)
(***************************************************************************)
MalformedSkipped == Cardinality({i \in 1..pos : lines[i].kind = "malformed"})

C13_CountersAccountForLines ==
    stats.returned
        => /\ stats.kept = Len(outf)
           /\ stats.total_seen = stats.kept + stats.removed_sold_no
                                     + stats.removed_missing_year + MalformedSkipped

\* without the malformed lines, which the code counts as kept, the sums agree
CountersWithMalformedAsKept ==
    stats.returned
        => /\ stats.kept = Len(outf) + MalformedSkipped
           /\ stats.total_seen = stats.kept + stats.removed_sold_no
                                     + stats.removed_missing_year

====
